---- MODULE Spec2Model ----
(***************************************************************************)
(* gopoke, src/main.go lines 1-169: main starts fetchData in a goroutine,  *)
(* a second goroutine closes the two channels once the WaitGroup is done,  *)
(* main selects on the channels, decodes the body, prints six fields and   *)
(* downloads and saves the two optional sprites.                           *)
(*                                                                         *)
(* Strings that the program only passes around (URLs, error texts) are     *)
(* TLA+ strings.  The Pokemon name, which the program formats into a file  *)
(* name and hands to filepath.Join, is a sequence of tokens: "/" is the    *)
(* path separator, "." a dot, every other token a run of ordinary          *)
(* characters.                                                             *)
(***************************************************************************)
EXTENDS Integers, Sequences, FiniteSets, TLC

\* ---------------------------------------------------------------- bounds
MaxSpriteLen == 1

\* ------------------------------------------------------- program constants
\* http.StatusOK
StatusOK == 200

ResourceURL == "https://pokeapi-proxy.freecodecamp.rocks/api/pokemon/1/"

FrontSuffix == "_front.png"

BackSuffix == "_back.png"

\* ------------------------------------------------------------ input sets
RECURSIVE SeqsUpTo(_, _)
SeqsUpTo(S, n) ==
  IF n = 0 THEN {<<>>}
  ELSE LET shorter == SeqsUpTo(S, n - 1)
       IN  shorter \cup {Append(s, t) : s \in {q \in shorter : Len(q) = n - 1}, t \in S}

\* Values of the name key: "", "a", "./a", "../a"
Names == {<<>>, <<"a">>, <<".", "/", "a">>, <<".", ".", "/", "a">>}

SpriteURLs == {"", "http://sprite"}

StatusCodes == {200, 404}

\* The bytes of a sprite: from one to MaxSpriteLen bytes
SpriteBytes == SeqsUpTo({7}, MaxSpriteLen) \ {<<>>}

JSONKeys == {"name", "front_default", "back_default"}

\* A response body: syntactically broken bytes, or a JSON object holding all
\* or none of the keys the program's control flow reads.  typed = FALSE is an object in which some
\* other decoded key (base_experience, height, id, stats) has a value of the
\* wrong JSON type.  A key that is absent carries no value.
MalformedBody ==
  [syntax |-> FALSE, typed |-> FALSE, keys |-> {}, name |-> <<>>, front |-> "", back |-> ""]

ObjectBodies ==
  {[syntax |-> TRUE, typed |-> t, keys |-> k, name |-> n, front |-> f, back |-> b] :
     t \in BOOLEAN, k \in SUBSET JSONKeys, n \in Names, f \in SpriteURLs, b \in SpriteURLs}

Bodies ==
  {MalformedBody} \cup
  {d \in ObjectBodies :
     /\ d.keys \in {{}, JSONKeys}
     /\ ("name" \notin d.keys => d.name = <<>>)
     /\ ("front_default" \notin d.keys => d.front = "")
     /\ ("back_default" \notin d.keys => d.back = "")
     /\ (~d.typed => d.keys = JSONKeys /\ d.name = <<"a">>)}

\* ------------------------------------------------------------ data model
\* type Pokemon (the fields the control flow reads: Name, Sprites)
ZeroPokemon == [Name |-> <<>>, FrontDefault |-> "", BackDefault |-> ""]

\* json.Unmarshal(body, &data) on a zero Pokemon: a syntax error leaves data
\* untouched; an absent key leaves its field zero; a type mismatch is
\* reported after the remaining keys were decoded.
Unmarshal(body) ==
  IF ~body.syntax
    THEN [data |-> ZeroPokemon, err |-> "syntax"]
    ELSE [data |-> [Name         |-> IF "name" \in body.keys THEN body.name ELSE <<>>,
                    FrontDefault |-> IF "front_default" \in body.keys THEN body.front ELSE "",
                    BackDefault  |-> IF "back_default" \in body.keys THEN body.back ELSE ""],
          err  |-> IF body.typed THEN "nil" ELSE "type"]

\* parseJSON with the returned Pokemon of a failed decode kept.
parseJSONKeepData(body) ==
  LET r == Unmarshal(body)
  IN  [pokemon |-> r.data, err |-> "nil"]

\* func parseJSON(body []byte) (Pokemon, error)
parseJSON(body) ==
  LET r == Unmarshal(body)
  IN  IF r.err # "nil"
        THEN [pokemon |-> ZeroPokemon, err |-> "error parsing JSON"]
        ELSE [pokemon |-> r.data, err |-> "nil"]

\* ------------------------------------------------------------- file names
\* strings.Split(path, "/") on a token sequence
RECURSIVE SplitPath(_)
SplitPath(p) ==
  IF p = <<>> THEN <<<<>>>>
  ELSE LET rest == SplitPath(Tail(p))
       IN  IF Head(p) = "/" THEN <<<<>>>> \o rest
           ELSE <<<<Head(p)>> \o Head(rest)>> \o Tail(rest)

DotDot == <<".", ".">>

\* filepath.Clean of a relative path, component by component: empty and "."
\* components are dropped, ".." removes the component before it unless there
\* is none or it is ".." itself.
RECURSIVE CleanComponents(_, _)
CleanComponents(comps, stack) ==
  IF comps = <<>> THEN stack
  ELSE LET c == Head(comps)
           next == IF c = <<>> \/ c = <<".">> THEN stack
                   ELSE IF c = DotDot
                     THEN IF stack # <<>> /\ stack[Len(stack)] # DotDot
                            THEN SubSeq(stack, 1, Len(stack) - 1)
                            ELSE Append(stack, c)
                   ELSE Append(stack, c)
       IN  CleanComponents(Tail(comps), next)

RECURSIVE JoinComponents(_)
JoinComponents(comps) ==
  IF comps = <<>> THEN <<>>
  ELSE IF Len(comps) = 1 THEN Head(comps)
  ELSE Head(comps) \o <<"/">> \o JoinComponents(Tail(comps))

\* filepath.Join(".", elem) for a non-empty elem: Clean("./" + elem)
FilepathJoinDot(elem) ==
  LET stack == CleanComponents(SplitPath(<<".", "/">> \o elem), <<>>)
  IN  IF stack = <<>> THEN <<".">> ELSE JoinComponents(stack)

Suffix(which) == IF which = "front" THEN FrontSuffix ELSE BackSuffix

\* fmt.Sprintf("%s_front.png", name) / fmt.Sprintf("%s_back.png", name)
SprintfName(name, which) == Append(name, Suffix(which))

\* frontFilename / backFilename
SpriteFilename(name, which) == FilepathJoinDot(SprintfName(name, which))

\* ------------------------------------------------------------------ state
VARIABLES
  mainPc,      \* main's position
  fetchPc,     \* the fetchData goroutine's position
  closerPc,    \* the closing goroutine's position (func literal, lines 116-120)
  wgCount,     \* wg's counter
  closed,      \* closed[c]: channel c has been closed
  fetchResp,   \* what the resource GET did: [get, status, read]
  fetchMsg,    \* the value fetchData is sending: [chan, err, body]
  recv,        \* what main's select received: [chan, err, body, zero]
  parsed,      \* pokemon, err of line 126
  cur,         \* the sprite main is working on: "front" or "back"
  filename,    \* frontFilename / backFilename
  spriteData,  \* per sprite: spriteData of lines 141 / 156
  stepErr,     \* err of the sprite step in progress
  fs,          \* the files on disk: path -> contents
  panicked,    \* a goroutine panicked: the program has crashed
  stdout,      \* the lines printed so far
  net,         \* the GETs issued so far
  sends,       \* the channel sends completed so far
  created,     \* the paths os.Create has created or truncated so far
  outcome,     \* per sprite: none, skipped, dlErr, createErr, writeErr, saved
  wrote,       \* per sprite: what file.Write returned, [n, err] (n = -1: not called)
  trace        \* the steps taken so far, in order

vars == <<mainPc, fetchPc, closerPc, wgCount, closed, fetchResp, fetchMsg, recv,
          parsed, cur, filename, spriteData, stepErr, fs, panicked, stdout, net,
          sends, created, outcome, wrote, trace>>

chanVars == <<closed, fetchMsg, sends>>
fetchVars == <<fetchPc, fetchResp>>
spriteVars == <<cur, filename, spriteData, stepErr, outcome, wrote>>
diskVars == <<fs, created>>

Chans == {"errorChan", "resultChan"}

Sprites == {"front", "back"}

NoMsg == [chan |-> "none", err |-> "nil", body |-> MalformedBody]

NoRecv == [chan |-> "none", err |-> "nil", body |-> MalformedBody, zero |-> FALSE]

\* Files present before the run: one unrelated file and an older front sprite.
KeepFile == <<"keep">>

OldSprite == <<"a", FrontSuffix>>

InitialFiles == [p \in {KeepFile, OldSprite} |-> <<9, 9>>]

Event(ev, which) == [ev |-> ev, which |-> which]

Line(kind, which, text) == [kind |-> kind, which |-> which, text |-> text]

\* main, lines 107-111: url, wg, resultChan := make(chan []byte),
\* errorChan := make(chan error)
Init ==
  /\ mainPc = "wgAdd"
  /\ fetchPc = "idle"
  /\ closerPc = "idle"
  /\ wgCount = 0
  /\ closed = [c \in Chans |-> FALSE]
  /\ fetchResp = [get |-> "none", status |-> 0, read |-> "none"]
  /\ fetchMsg = NoMsg
  /\ recv = NoRecv
  /\ parsed = [pokemon |-> ZeroPokemon, err |-> "nil"]
  /\ cur = "front"
  /\ filename = <<>>
  /\ spriteData = [w \in Sprites |-> <<>>]
  /\ stepErr = "nil"
  /\ fs = InitialFiles
  /\ panicked = FALSE
  /\ stdout = <<>>
  /\ net = <<>>
  /\ sends = <<>>
  /\ created = <<>>
  /\ outcome = [w \in Sprites |-> "none"]
  /\ wrote = [w \in Sprites |-> [n |-> -1, err |-> FALSE]]
  /\ trace = <<>>

\* The process runs until main returns or a goroutine panics.
Running == mainPc # "done" /\ ~panicked

\* ------------------------------------------------------------- fetchData
\* resp.StatusCode != http.StatusOK with the comparison left out
StatusIsOKAlways(code) == TRUE

\* line 48: resp.StatusCode != http.StatusOK (negated)
StatusIsOK(code) == code = StatusOK

\* line 41-45: resp, err := client.Get(url)
FetchGet ==
  /\ Running /\ fetchPc = "get"
  /\ net' = Append(net, [url |-> ResourceURL, by |-> "fetchData"])
  /\ trace' = Append(trace, Event("get", "resource"))
  /\ \E ok \in BOOLEAN :
       IF ok
         THEN \E code \in StatusCodes :
                /\ fetchResp' = [fetchResp EXCEPT !.get = "ok", !.status = code]
                /\ fetchPc' = "status"
                /\ UNCHANGED fetchMsg
         ELSE /\ fetchMsg' = [chan |-> "errorChan", err |-> "HTTP request error", body |-> MalformedBody]
              /\ fetchPc' = "send"
              /\ fetchResp' = [fetchResp EXCEPT !.get = "err"]
  /\ UNCHANGED <<mainPc, closerPc, wgCount, closed, recv, parsed, spriteVars, diskVars,
                 panicked, stdout, sends>>

\* the status branch returning without a send
AfterStatusErrNoSend == "deferred"

\* lines 49-50: the non-200 branch sends on errorChan, then returns
AfterStatusErr == "send"

\* lines 48-51
FetchStatus ==
  /\ Running /\ fetchPc = "status"
  /\ IF StatusIsOK(fetchResp.status)
       THEN fetchPc' = "read" /\ UNCHANGED fetchMsg
       ELSE /\ fetchMsg' = [chan |-> "errorChan", err |-> "unexpected status code", body |-> MalformedBody]
            /\ fetchPc' = AfterStatusErr
  /\ UNCHANGED <<mainPc, closerPc, wgCount, closed, fetchResp, recv, parsed, spriteVars,
                 diskVars, panicked, stdout, net, sends, trace>>

\* lines 53-59: body, err := io.ReadAll(resp.Body)
FetchRead ==
  /\ Running /\ fetchPc = "read"
  /\ \E ok \in BOOLEAN :
       IF ok
         THEN \E b \in Bodies :
                /\ fetchMsg' = [chan |-> "resultChan", err |-> "nil", body |-> b]
                /\ fetchResp' = [fetchResp EXCEPT !.read = "ok"]
         ELSE /\ fetchMsg' = [chan |-> "errorChan", err |-> "error reading response body", body |-> MalformedBody]
              /\ fetchResp' = [fetchResp EXCEPT !.read = "err"]
  /\ fetchPc' = "send"
  /\ UNCHANGED <<mainPc, closerPc, wgCount, closed, recv, parsed, spriteVars,
                 diskVars, panicked, stdout, net, sends, trace>>

\* lines 43, 49, 55, 59: the send statement starts; a send on a closed
\* channel panics, otherwise fetchData blocks until main receives.
FetchSend ==
  /\ Running /\ fetchPc = "send"
  /\ IF closed[fetchMsg.chan]
       THEN panicked' = TRUE /\ fetchPc' = "panic"
       ELSE fetchPc' = "blocked" /\ UNCHANGED panicked
  /\ UNCHANGED <<mainPc, closerPc, wgCount, closed, fetchResp, fetchMsg, recv, parsed,
                 spriteVars, diskVars, stdout, net, sends, trace>>

\* lines 38, 46: the deferred resp.Body.Close() and wg.Done()
FetchReturn ==
  /\ Running /\ fetchPc = "deferred"
  /\ wgCount' = wgCount - 1
  /\ fetchPc' = "returned"
  /\ trace' = Append(trace, Event("wgDone", "resource"))
  /\ UNCHANGED <<mainPc, closerPc, closed, fetchResp, fetchMsg, recv, parsed, spriteVars,
                 diskVars, panicked, stdout, net, sends>>

\* ------------------------------------------------- the closing goroutine
\* wg.Wait() returning at once
WaitReturnsAlways == TRUE

\* line 117: wg.Wait() returns when the counter is zero
WaitReturns == wgCount = 0

CloserWait ==
  /\ Running /\ closerPc = "wait"
  /\ WaitReturns
  /\ closerPc' = "closeResult"
  /\ UNCHANGED <<mainPc, fetchVars, wgCount, chanVars, recv, parsed, spriteVars, diskVars,
                 panicked, stdout, net, trace>>

\* close(c): a sender blocked on c panics
CloseChan(c, nextPc) ==
  /\ closed' = [closed EXCEPT ![c] = TRUE]
  /\ closerPc' = nextPc
  /\ trace' = Append(trace, Event("close", c))
  /\ IF fetchPc = "blocked" /\ fetchMsg.chan = c
       THEN panicked' = TRUE /\ fetchPc' = "panic"
       ELSE UNCHANGED <<panicked, fetchPc>>
  /\ UNCHANGED <<mainPc, fetchResp, wgCount, fetchMsg, sends, recv, parsed, spriteVars,
                 diskVars, stdout, net>>

\* line 118
CloserCloseResult == Running /\ closerPc = "closeResult" /\ CloseChan("resultChan", "closeError")

\* line 119
CloserCloseError == Running /\ closerPc = "closeError" /\ CloseChan("errorChan", "returned")

\* ------------------------------------------------------------------ main
\* line 113: wg.Add(1)
MainWgAdd ==
  /\ Running /\ mainPc = "wgAdd"
  /\ wgCount' = wgCount + 1
  /\ mainPc' = "goFetch"
  /\ UNCHANGED <<fetchVars, closerPc, chanVars, recv, parsed, spriteVars, diskVars,
                 panicked, stdout, net, trace>>

\* line 114: go fetchData(url, &wg, resultChan, errorChan)
MainGoFetch ==
  /\ Running /\ mainPc = "goFetch"
  /\ fetchPc' = "get"
  /\ mainPc' = "goCloser"
  /\ UNCHANGED <<fetchResp, closerPc, wgCount, chanVars, recv, parsed, spriteVars,
                 diskVars, panicked, stdout, net, trace>>

\* lines 116-120: go func() { ... }()
MainGoCloser ==
  /\ Running /\ mainPc = "goCloser"
  /\ closerPc' = "wait"
  /\ mainPc' = "select"
  /\ UNCHANGED <<fetchVars, wgCount, chanVars, recv, parsed, spriteVars, diskVars,
                 panicked, stdout, net, trace>>

\* a select with the errorChan case left out
SelectCasesResultOnly == {"resultChan"}

\* lines 122-125: the channels main's select receives from
SelectCases == {"errorChan", "resultChan"}

\* A receive on c can proceed: a sender is blocked on c, or c is closed.
RecvReady(c) == closed[c] \/ (fetchPc = "blocked" /\ fetchMsg.chan = c)

\* lines 122, 123, 125: the select takes one ready case; a closed channel
\* yields the zero value (a nil error, a nil body).
MainSelect ==
  /\ Running /\ mainPc = "select"
  /\ \E c \in SelectCases :
       /\ RecvReady(c)
       /\ IF closed[c]
            THEN /\ recv' = [chan |-> c, err |-> "nil", body |-> MalformedBody, zero |-> TRUE]
                 /\ UNCHANGED <<fetchPc, sends>>
            ELSE /\ recv' = [chan |-> c, err |-> fetchMsg.err, body |-> fetchMsg.body, zero |-> FALSE]
                 /\ fetchPc' = "deferred"
                 /\ sends' = Append(sends, fetchMsg)
       /\ mainPc' = IF c = "errorChan" THEN "printFetchErr" ELSE "parse"
       /\ trace' = Append(trace, Event("recv", c))
  /\ UNCHANGED <<fetchResp, closerPc, wgCount, closed, fetchMsg, parsed, spriteVars,
                 diskVars, panicked, stdout, net>>

\* line 124: fmt.Println("Error:", err), then the end of main
MainPrintFetchErr ==
  /\ Running /\ mainPc = "printFetchErr"
  /\ stdout' = Append(stdout, Line("Error:", "resource", recv.err))
  /\ mainPc' = "done"
  /\ trace' = Append(trace, Event("printErr", "resource"))
  /\ UNCHANGED <<fetchVars, closerPc, wgCount, chanVars, recv, parsed, spriteVars,
                 diskVars, panicked, net>>

\* the six Printlns skipped
AfterParseOkNoPrint == "check"

\* line 131: where main goes on after a successful parseJSON
AfterParseOk == "printFields"

\* lines 126-127: pokemon, err := parseJSON(body); if err != nil
MainParse ==
  /\ Running /\ mainPc = "parse"
  /\ parsed' = parseJSON(recv.body)
  /\ mainPc' = IF parsed'.err # "nil" THEN "printParseErr" ELSE AfterParseOk
  /\ trace' = Append(trace, Event("decode", "resource"))
  /\ UNCHANGED <<fetchVars, closerPc, wgCount, chanVars, recv, spriteVars, diskVars,
                 panicked, stdout, net>>

\* lines 128-129: fmt.Println("Error:", err); return
MainPrintParseErr ==
  /\ Running /\ mainPc = "printParseErr"
  /\ stdout' = Append(stdout, Line("Error:", "decode", parsed.err))
  /\ mainPc' = "done"
  /\ trace' = Append(trace, Event("printErr", "decode"))
  /\ UNCHANGED <<fetchVars, closerPc, wgCount, chanVars, recv, parsed, spriteVars,
                 diskVars, panicked, net>>

FieldLabels ==
  <<"Pokemon Name:", "Pokemon BaseExp:", "Pokemon Height:", "Pokemon Id:",
    "Pokemon Sprites:", "Pokemon Abilities:">>

\* lines 131-136
MainPrintFields ==
  /\ Running /\ mainPc = "printFields"
  /\ stdout' = stdout \o [i \in 1..Len(FieldLabels) |-> Line(FieldLabels[i], "fields", "value")]
  /\ mainPc' = "check"
  /\ trace' = Append(trace, Event("print", "fields"))
  /\ UNCHANGED <<fetchVars, closerPc, wgCount, chanVars, recv, parsed, spriteVars,
                 diskVars, panicked, net>>

\* ------------------------------------------------------ the sprite steps
\* pokemon.Sprites.FrontDefault / pokemon.Sprites.BackDefault
SpriteURL(which) ==
  IF which = "front" THEN parsed.pokemon.FrontDefault ELSE parsed.pokemon.BackDefault

\* the sprite step entered whatever the URL
ShouldDownloadAlways(url) == TRUE

\* lines 139, 154: if pokemon.Sprites.FrontDefault != ""
ShouldDownload(url) == url # ""

\* main returning after a sprite that was not saved
NextAfterSpriteStopOnError(which, result) ==
  IF which = "front" /\ result \in {"skipped", "saved"}
    THEN [pc |-> "check", cur |-> "back"]
    ELSE [pc |-> "done", cur |-> which]

\* lines 152-154, 167-169: after the front sprite's block comes the back
\* sprite's, after the back sprite's the end of main
NextAfterSprite(which, result) ==
  IF which = "front"
    THEN [pc |-> "check", cur |-> "back"]
    ELSE [pc |-> "done", cur |-> which]

\* The sprite block of `cur` ends with `result`.
EndSprite(result) ==
  /\ outcome' = [outcome EXCEPT ![cur] = result]
  /\ mainPc' = NextAfterSprite(cur, result).pc
  /\ cur' = NextAfterSprite(cur, result).cur

\* lines 139-140, 154-155
MainSpriteCheck ==
  /\ Running /\ mainPc = "check"
  /\ IF ShouldDownload(SpriteURL(cur))
       THEN /\ filename' = SpriteFilename(parsed.pokemon.Name, cur)
            /\ mainPc' = "download"
            /\ UNCHANGED <<cur, outcome>>
       ELSE /\ EndSprite("skipped")
            /\ UNCHANGED filename
  /\ UNCHANGED <<fetchVars, closerPc, wgCount, chanVars, recv, parsed, spriteData, stepErr,
                 wrote, diskVars, panicked, stdout, net, trace>>

\* lines 141, 156 and downloadSprite, lines 72-89: the GET fails (ok), or
\* answers with a status (code) and a body that can be read or not (readOk,
\* data); nil is returned with an error
MainDownloadSprite ==
  /\ Running /\ mainPc = "download"
  /\ net' = Append(net, [url |-> SpriteURL(cur), by |-> cur])
  /\ trace' = Append(trace, Event("get", cur))
  /\ \E ok \in BOOLEAN, code \in StatusCodes, readOk \in BOOLEAN, data \in SpriteBytes :
       IF ~ok
         THEN stepErr' = "error downloading sprite" /\ UNCHANGED spriteData
         ELSE IF ~StatusIsOK(code)
           THEN stepErr' = "unexpected status code" /\ UNCHANGED spriteData
         ELSE IF ~readOk
           THEN stepErr' = "error reading sprite data" /\ UNCHANGED spriteData
         ELSE stepErr' = "nil" /\ spriteData' = [spriteData EXCEPT ![cur] = data]
  /\ mainPc' = IF stepErr' # "nil" THEN "reportDownloadErr" ELSE "create"
  /\ UNCHANGED <<fetchVars, closerPc, wgCount, chanVars, recv, parsed, cur, filename,
                 outcome, wrote, diskVars, panicked, stdout>>

\* lines 143, 158: fmt.Println("Error downloading front sprite:", err)
MainReportDownloadErr ==
  /\ Running /\ mainPc = "reportDownloadErr"
  /\ stdout' = Append(stdout, Line("Error downloading", cur, stepErr))
  /\ trace' = Append(trace, Event("report", cur))
  /\ EndSprite("dlErr")
  /\ UNCHANGED <<fetchVars, closerPc, wgCount, chanVars, recv, parsed, filename, spriteData,
                 stepErr, wrote, diskVars, panicked, net>>

\* saveSprite, lines 92-95: file, err := os.Create(filename), which creates
\* the file or truncates an existing one
SaveCreate ==
  /\ Running /\ mainPc = "create"
  /\ trace' = Append(trace, Event("create", cur))
  /\ \E ok \in BOOLEAN :
       IF ok
         THEN /\ fs' = [p \in DOMAIN fs \cup {filename} |-> IF p = filename THEN <<>> ELSE fs[p]]
              /\ created' = Append(created, filename)
              /\ mainPc' = "write"
              /\ UNCHANGED stepErr
         ELSE /\ stepErr' = "error creating file"
              /\ mainPc' = "reportSave"
              /\ UNCHANGED <<fs, created>>
  /\ UNCHANGED <<fetchVars, closerPc, wgCount, chanVars, recv, parsed, cur, filename,
                 spriteData, outcome, wrote, panicked, stdout, net>>

\* file.Write's error dropped
WriteResultIgnored(werr) == "nil"

\* saveSprite, lines 98-103: the error saveSprite returns after file.Write
WriteResult(werr) == IF werr THEN "error saving sprite" ELSE "nil"

\* saveSprite, lines 96-103: _, err = file.Write(data) writes the first n
\* bytes and returns an error whenever n < len(data); defer file.Close()
SaveWrite ==
  /\ Running /\ mainPc = "write"
  /\ trace' = Append(trace, Event("write", cur))
  /\ \E n \in 0..Len(spriteData[cur]), werr \in BOOLEAN :
       /\ (n < Len(spriteData[cur]) => werr)
       /\ fs' = [fs EXCEPT ![filename] = SubSeq(spriteData[cur], 1, n)]
       /\ wrote' = [wrote EXCEPT ![cur] = [n |-> n, err |-> werr]]
       /\ stepErr' = WriteResult(werr)
  /\ mainPc' = "reportSave"
  /\ UNCHANGED <<fetchVars, closerPc, wgCount, chanVars, recv, parsed, cur, filename,
                 spriteData, outcome, created, panicked, stdout, net>>

\* lines 146-150, 161-165
MainReportSave ==
  /\ Running /\ mainPc = "reportSave"
  /\ trace' = Append(trace, Event("report", cur))
  /\ IF stepErr # "nil"
       THEN /\ stdout' = Append(stdout, Line("Error saving", cur, stepErr))
            /\ EndSprite(IF wrote[cur].n = -1 THEN "createErr" ELSE "writeErr")
       ELSE /\ stdout' = Append(stdout, Line("saved as:", cur, filename))
            /\ EndSprite("saved")
  /\ UNCHANGED <<fetchVars, closerPc, wgCount, chanVars, recv, parsed, filename, spriteData,
                 stepErr, wrote, diskVars, panicked, net>>

\* ---------------------------------------------------------- specification
Next ==
  \/ MainWgAdd \/ MainGoFetch \/ MainGoCloser \/ MainSelect
  \/ MainPrintFetchErr \/ MainParse \/ MainPrintParseErr \/ MainPrintFields
  \/ MainSpriteCheck \/ MainDownloadSprite \/ MainReportDownloadErr
  \/ SaveCreate \/ SaveWrite \/ MainReportSave
  \/ FetchGet \/ FetchStatus \/ FetchRead \/ FetchSend \/ FetchReturn
  \/ CloserWait \/ CloserCloseResult \/ CloserCloseError

Spec == Init /\ [][Next]_vars

\* The Go scheduler runs every goroutine that can take a step.
FairSpec == Spec /\ WF_vars(Next)

\* ------------------------------------------------------ derived notions
\* The resource fetch failed: the GET failed, the status is not 200, or the
\* body could not be read.
FetchFailed ==
  \/ fetchResp.get = "err"
  \/ (fetchResp.get = "ok" /\ fetchResp.status # StatusOK)
  \/ fetchResp.read = "err"

\* The resource fetch succeeded: status 200 and the body read.
FetchSucceeded ==
  fetchResp.get = "ok" /\ fetchResp.status = StatusOK /\ fetchResp.read = "ok"

Happened(ev, which) == \E i \in DOMAIN trace : trace[i] = Event(ev, which)

\* The place of the first (ev, which) step in the trace, 0 if there is none.
Pos(ev, which) ==
  IF Happened(ev, which)
    THEN CHOOSE i \in DOMAIN trace :
           /\ trace[i] = Event(ev, which)
           /\ \A j \in 1..(i - 1) : trace[j] # Event(ev, which)
    ELSE 0

Before(ev1, w1, ev2, w2) ==
  Happened(ev2, w2) => (Happened(ev1, w1) /\ Pos(ev1, w1) < Pos(ev2, w2))

GetsBy(who) == {i \in DOMAIN net : net[i].by = who}

LinesAbout(which) == {i \in DOMAIN stdout : stdout[i].which = which}

LinesOfKind(kind) == {i \in DOMAIN stdout : stdout[i].kind = kind}

FieldLinesPrinted == \E i \in DOMAIN stdout : stdout[i].which = "fields"

DiskUntouched == fs = InitialFiles /\ created = <<>>

\* ------------------------------------------------------------------- C1
\* C1: every run of main terminates.  Whatever the fetch, the decode, the
\* sprite downloads and the file writes do, main's select receives a message
\* and main reaches its end; main is never left blocked on the select, nor
\* fetchData on its send.
C1_MainTerminates == <>(mainPc = "done")

\* main reached its end after a failed fetch was received on errorChan.
C1_Witness ==
  /\ mainPc = "done"
  /\ FetchFailed
  /\ Len(sends) = 1
  /\ recv.chan = "errorChan"

\* ------------------------------------------------------------------- C2
\* C2: fetchData sends exactly one message, on exactly one channel: an error
\* on errorChan when the GET fails, the status is not 200 or the body read
\* fails, the body on resultChan otherwise; it never sends twice and never
\* returns (nor does main end) without that send.
C2_ExactlyOneSend ==
  /\ Len(sends) <= 1
  /\ (fetchPc \in {"deferred", "returned"} => Len(sends) = 1)
  /\ (mainPc = "done" => Len(sends) = 1)
  /\ \A i \in DOMAIN sends :
       /\ (FetchFailed => sends[i].chan = "errorChan" /\ sends[i].err # "nil")
       /\ (FetchSucceeded => sends[i].chan = "resultChan" /\ sends[i].err = "nil")
       /\ (FetchFailed \/ FetchSucceeded)

\* fetchData has returned after a non-200 status was sent on errorChan.
C2_Witness ==
  /\ fetchPc = "returned"
  /\ fetchResp.get = "ok" /\ fetchResp.status # StatusOK
  /\ sends = <<[chan |-> "errorChan", err |-> "unexpected status code", body |-> MalformedBody]>>

\* ------------------------------------------------------------------- C3
\* C3: when the resource fetch fails, main prints exactly one "Error:" line
\* and ends: no JSON is decoded, no Pokemon field is printed, no sprite GET is
\* issued and no file is created or written.
C3_FetchFailureEndsMain ==
  FetchFailed =>
    /\ ~Happened("decode", "resource")
    /\ ~FieldLinesPrinted
    /\ GetsBy("front") = {} /\ GetsBy("back") = {}
    /\ DiskUntouched
    /\ Len(stdout) <= 1
    /\ (mainPc = "done" =>
          /\ Len(stdout) = 1
          /\ stdout[1].kind = "Error:"
          /\ stdout[1].text # "nil")
    /\ mainPc \in {"goCloser", "select", "printFetchErr", "done"}

\* main ended after a body read error.
C3_Witness ==
  /\ mainPc = "done"
  /\ fetchResp.read = "err"
  /\ stdout = <<Line("Error:", "resource", "error reading response body")>>

\* ------------------------------------------------------------------- C4
\* C4: when the fetched body is malformed JSON, parseJSON returns an error
\* with a zero Pokemon, main prints one "Error:" line and returns: no field
\* is printed, no sprite GET is issued, no file is created.
C4_MalformedBodyEndsMain ==
  (Happened("decode", "resource") /\ ~recv.zero /\ ~recv.body.syntax) =>
    /\ parsed.pokemon = ZeroPokemon
    /\ parsed.err # "nil"
    /\ mainPc \in {"printParseErr", "done"}
    /\ ~FieldLinesPrinted
    /\ GetsBy("front") = {} /\ GetsBy("back") = {}
    /\ DiskUntouched
    /\ (mainPc = "done" => stdout = <<Line("Error:", "decode", parsed.err)>>)

\* main returned after decoding a malformed body received on resultChan.
C4_Witness ==
  /\ mainPc = "done"
  /\ recv.chan = "resultChan" /\ ~recv.zero /\ ~recv.body.syntax
  /\ Happened("decode", "resource")
  /\ Len(stdout) = 1

\* ------------------------------------------------------------------- C5
\* C5: an error in the front sprite step ends only that step.  After a
\* successful decode the back sprite download is attempted if and only if
\* the decoded back_default is non-empty, whether the front sprite was
\* skipped, failed to download, failed to be created or written, or was saved.
C5_BackIndependentOfFront ==
  (mainPc = "done" /\ Happened("decode", "resource") /\ parsed.err = "nil") =>
    /\ outcome["front"] \in {"skipped", "dlErr", "createErr", "writeErr", "saved"}
    /\ (GetsBy("back") # {} <=> parsed.pokemon.BackDefault # "")
    /\ (GetsBy("back") = {} <=> outcome["back"] = "skipped")

\* The back sprite was downloaded after the front sprite's file could not
\* be written.
C5_Witness ==
  /\ mainPc = "done"
  /\ outcome["front"] = "writeErr"
  /\ GetsBy("back") # {}

\* ------------------------------------------------------------------- C6
\* C6: no retry.  A run issues exactly one GET to the resource URL and at
\* most one GET for each sprite, so at most three GETs, none repeated after
\* a failure; a sprite GET is issued only for a non-empty decoded URL.
C6_NoRetry ==
  /\ Cardinality(GetsBy("fetchData")) <= 1
  /\ (mainPc = "done" => Cardinality(GetsBy("fetchData")) = 1)
  /\ \A w \in Sprites : Cardinality(GetsBy(w)) <= 1
  /\ Len(net) <= 3
  /\ \A i \in DOMAIN net :
       IF net[i].by = "fetchData"
         THEN net[i].url = ResourceURL
         ELSE /\ net[i].url # ""
              /\ net[i].url = SpriteURL(net[i].by)
              /\ parsed.err = "nil"

\* main ended after three GETs of which the front sprite's failed.
C6_Witness ==
  /\ mainPc = "done"
  /\ Len(net) = 3
  /\ outcome["front"] = "dlErr"

\* ------------------------------------------------------------------- C7
\* A path names a file directly in the current directory: it has no
\* separator, so no directory part.
InCurrentDir(path) == \A i \in DOMAIN path : path[i] # "/"

\* The sprite whose block created created[i].
CreatedBy(i, w) ==
  /\ created[i] = SpriteFilename(parsed.pokemon.Name, w)
  /\ SpriteURL(w) # ""
  /\ Before("get", w, "create", w)
  /\ \A j \in LinesAbout(w) : stdout[j].kind # "Error downloading"

\* Every file other than the ones os.Create was handed is as it was.
RestOfDiskUnchanged ==
  /\ DOMAIN fs = DOMAIN InitialFiles \cup {created[i] : i \in DOMAIN created}
  /\ \A q \in DOMAIN InitialFiles :
       (\A i \in DOMAIN created : created[i] # q) => fs[q] = InitialFiles[q]

\* C7: the only files a run creates or overwrites are "<name>_front.png" and
\* "<name>_back.png" in the current directory, <name> the decoded name; each
\* is created at most once, and only when its sprite URL is non-empty and its
\* download returned 200 with the body read; nothing else on disk changes.
C7_OnlySpriteFilesInCurrentDir ==
  /\ \A i \in DOMAIN created :
       /\ \E w \in Sprites : CreatedBy(i, w)
       /\ InCurrentDir(created[i])
  /\ \A i, j \in DOMAIN created : created[i] = created[j] => i = j
  /\ RestOfDiskUnchanged

\* C7 without the directory: the files created are the two joined sprite
\* file names, each at most once and only after its own successful download,
\* and the rest of the disk is unchanged.
C7_OnlySpriteFiles ==
  /\ \A i \in DOMAIN created : \E w \in Sprites : CreatedBy(i, w)
  /\ \A i, j \in DOMAIN created : created[i] = created[j] => i = j
  /\ RestOfDiskUnchanged

\* ------------------------------------------------------------------- C8
\* C8: the steps happen in the order request, wait, decode, print, download,
\* write.  The decode does not start before the body was received from
\* resultChan, no sprite GET starts before the six field lines are printed,
\* a file is written only after its own download, and the front sprite's
\* download and write are over before the back sprite's download starts.
C8_StepOrder ==
  /\ Before("get", "resource", "recv", "resultChan")
  /\ Before("recv", "resultChan", "decode", "resource")
  /\ Before("decode", "resource", "print", "fields")
  /\ \A w \in Sprites :
       /\ Before("print", "fields", "get", w)
       /\ Before("get", w, "create", w)
       /\ Before("create", w, "write", w)
       /\ (Happened("get", w) =>
             \A k \in DOMAIN FieldLabels : Cardinality(LinesOfKind(FieldLabels[k])) = 1)
  /\ (Happened("get", "back") =>
        /\ outcome["front"] # "none"
        /\ (mainPc # "done" => cur = "back")
        /\ \A ev \in {"get", "create", "write", "report"} :
             Happened(ev, "front") => Pos(ev, "front") < Pos("get", "back"))
  /\ (Happened("decode", "resource") => ~recv.zero /\ Len(sends) = 1)

\* The back sprite's download started after the front sprite was written.
C8_Witness ==
  /\ Happened("write", "front")
  /\ Happened("get", "back")
  /\ Happened("write", "back")

\* ------------------------------------------------------------------- C9
\* C9: in every interleaving the two channels are closed only after
\* fetchData's single send was received by main and fetchData called
\* wg.Done.  So fetchData never sends on a closed channel, and main's select
\* never takes a zero value from a closed channel: no "Error: <nil>" line,
\* no nil body handed to parseJSON.
C9_CloseAfterSendAndDone ==
  /\ \A c \in Chans :
       (closed[c] \/ Happened("close", c)) =>
         /\ Len(sends) = 1
         /\ fetchPc = "returned"
         /\ wgCount = 0
         /\ Before("recv", sends[1].chan, "wgDone", "resource")
         /\ Before("wgDone", "resource", "close", c)
  /\ ~panicked
  /\ fetchPc # "panic"
  /\ ~recv.zero
  /\ \A i \in DOMAIN stdout : stdout[i].kind = "Error:" => stdout[i].text # "nil"

\* Both channels are closed while main is still at work on the sprites.
C9_Witness ==
  /\ closed["resultChan"] /\ closed["errorChan"]
  /\ closerPc = "returned"
  /\ mainPc = "download"

\* ------------------------------------------------------------------ C10
\* C10: a "saved as" line is printed for a sprite only if its file was
\* created and all downloaded bytes were written without error; and an
\* attempted sprite gets exactly one outcome line, an error line or a
\* "saved as" line, never both and never neither.
C10_OneOutcomeLine ==
  \A w \in Sprites :
    /\ \A i \in LinesAbout(w) :
         stdout[i].kind = "saved as:" =>
           /\ \E j \in DOMAIN created : created[j] = stdout[i].text
           /\ stdout[i].text = SpriteFilename(parsed.pokemon.Name, w)
           /\ wrote[w] = [n |-> Len(spriteData[w]), err |-> FALSE]
           /\ fs[stdout[i].text] = spriteData[w]
    /\ Cardinality(LinesAbout(w)) <= 1
    /\ (LinesAbout(w) # {} => Happened("get", w))
    /\ ((Happened("get", w) /\ (mainPc = "done" \/ cur # w)) =>
          /\ Cardinality(LinesAbout(w)) = 1
          /\ \A i \in LinesAbout(w) :
               stdout[i].kind \in {"Error downloading", "Error saving", "saved as:"})

\* A "saved as" line for the back sprite after an error line for the front.
C10_Witness ==
  /\ mainPc = "done"
  /\ \E i \in LinesAbout("front") : stdout[i].kind = "Error saving"
  /\ \E i \in LinesAbout("back") : stdout[i].kind = "saved as:"

====
